---------------------------- MODULE Spec2Model ----------------------------
(***************************************************************************)
(* A model of the spatial filtering and segmentation routines of           *)
(* Image_Processing/common.py and Image_Processing/segmentation.py.        *)
(*                                                                         *)
(* Arrays are functions over 0-based index ranges, as in numpy.  A pixel   *)
(* of a grayscale image is an integer numerator; the record of an image    *)
(* carries one denominator "den" for all its pixels, so that the value of  *)
(* a pixel is px[r][c] / den, exactly.  den = 0 encodes the IEEE values a  *)
(* float division by zero produces: k/0 with k # 0 is +-Inf, 0/0 is NaN.   *)
(* A pixel of a colour image is a triple of such numerators.  Rounding     *)
(* error of the float arithmetic is not modelled: sums and products are    *)
(* exact.                                                                  *)
(***************************************************************************)
EXTENDS Integers, Sequences, FiniteSets, TLC

VARIABLES image, call, outcome, result, result_is_input,
          pc, global_threshold, new_global_threshold, thresholds,
          number_of_images, epic

vars == <<image, call, outcome, result, result_is_input,
          pc, global_threshold, new_global_threshold, thresholds,
          number_of_images, epic>>

\* The state of an EPIC object: its field __number_of_images, and, in
\* "epic", whether it is constructed, the configured default and the value
\* last supplied to it.
epic_vars == <<number_of_images, epic>>

\* The loop state of global_thresholding.
loop_vars == <<pc, global_threshold, new_global_threshold, thresholds>>

(***************************************************************************)
(* Bounds of the model.                                                    *)
(***************************************************************************)
MaxRows == 3
MaxCols == 3
MaxPixel == 2
MaxPad == 2
MaxHalf == 1
MaxBase == 2
MaxThresholdRows == 2
MaxThresholdCols == 2
MaxIterations == 3
MaxLevel == 3
MaxNumber == 4

(***************************************************************************)
(* Arithmetic helpers.                                                     *)
(***************************************************************************)
Abs(x) == IF x < 0 THEN -x ELSE x

Min2(a, b) == IF a < b THEN a ELSE b

Max2(a, b) == IF a > b THEN a ELSE b

(***************************************************************************)
(* Arrays.                                                                 *)
(***************************************************************************)
Rows(img) == img.shape[1]

Cols(img) == img.shape[2]

IsColour(img) == Len(img.shape) = 3

ZeroPixel(colour) == IF colour THEN <<0, 0, 0>> ELSE 0

\* np.zeros(shape): an all-zero float array of the shape.
np_zeros(shape) ==
    [kind |-> "image", shape |-> shape, den |-> 1,
     px |-> [r \in 0..(shape[1] - 1) |->
               [c \in 0..(shape[2] - 1) |-> ZeroPixel(Len(shape) = 3)]]]

NoResult == [kind |-> "none"]

\* A return of a newly allocated value.  "same" tells whether the returned
\* array is the array passed as the argument "image".
Returned(v) == [ok |-> TRUE, exc |-> "", val |-> v, same |-> FALSE]

\* "return image": the argument array itself is returned, holding v.
ReturnedInput(v) == [ok |-> TRUE, exc |-> "", val |-> v, same |-> TRUE]

\* log.raise_exception(message, exception): raises the exception to the caller.
raise_exception(exception) ==
    [ok |-> FALSE, exc |-> exception, val |-> NoResult, same |-> FALSE]

(***************************************************************************)
(* Python slices.  a[start:stop] over an axis of length n: a negative      *)
(* index counts from the end, and both ends are clamped to 0..n.           *)
(***************************************************************************)
SliceIndex(i, n) == IF i < 0 THEN Max2(i + n, 0) ELSE Min2(i, n)

SliceRange(start, stop, n) ==
    {k \in 0..(n - 1) : SliceIndex(start, n) <= k /\ k < SliceIndex(stop, n)}

SliceLen(start, stop, n) == Cardinality(SliceRange(start, stop, n))

\* numpy's rule for target[...] = source: along each axis the source's length
\* equals the target's or is 1.
Broadcastable(src, tgt) == src = tgt \/ src = 1

(***************************************************************************)
(* The input images, of every shape up to MaxRows x MaxCols: a constant    *)
(* background with at most one pixel of another value (the constant images *)
(* and the impulse images), and the ramps, whose neighbouring pixels       *)
(* differ.  The colour images carry three different planes derived from a  *)
(* grayscale one.                                                          *)
(***************************************************************************)
Positions(h, w) == (0..(h - 1)) \X (0..(w - 1))

Paint(h, w, b, spots) ==
    [kind |-> "image", shape |-> <<h, w>>, den |-> 1,
     px |-> [r \in 0..(h - 1) |->
               [c \in 0..(w - 1) |->
                  IF <<r, c>> \in DOMAIN spots THEN spots[<<r, c>>] ELSE b]]]

Ramp(h, w, k) ==
    [kind |-> "image", shape |-> <<h, w>>, den |-> 1,
     px |-> [r \in 0..(h - 1) |-> [c \in 0..(w - 1) |-> (k + r + 2 * c) % (MaxPixel + 1)]]]

Shapes == (1..MaxRows) \X (1..MaxCols)

GrayImages ==
    {Paint(s[1], s[2], b, <<>>) : s \in Shapes, b \in 0..MaxPixel}
    \cup UNION {{Paint(s[1], s[2], b, (p :> v)) : p \in Positions(s[1], s[2])}
                : s \in Shapes, b \in 0..MaxPixel, v \in 0..MaxPixel}
    \cup {Ramp(s[1], s[2], k) : s \in Shapes, k \in 0..MaxPixel}

Colourise(img) ==
    [kind |-> "image", shape |-> <<Rows(img), Cols(img), 3>>, den |-> 1,
     px |-> [r \in 0..(Rows(img) - 1) |->
               [c \in 0..(Cols(img) - 1) |->
                  <<img.px[r][c], MaxPixel - img.px[r][c], (r + c) % (MaxPixel + 1)>>]]]

ColourImages == {Colourise(g) : g \in GrayImages}

Images == GrayImages \cup ColourImages

(***************************************************************************)
(* common.py: pad_image.                                                   *)
(***************************************************************************)
ZERO_PADDING == "zero_padding"

\* padded_image[padding_size:-padding_size, padding_size:-padding_size] = image[:, :]
PadAssign(padded, img, padding_size) ==
    LET rows == Rows(padded)
        cols == Cols(padded)
        tr   == SliceRange(padding_size, -padding_size, rows)
        tc   == SliceRange(padding_size, -padding_size, cols)
        r0   == SliceIndex(padding_size, rows)
        c0   == SliceIndex(padding_size, cols)
    IN  IF Broadcastable(Rows(img), Cardinality(tr))
           /\ Broadcastable(Cols(img), Cardinality(tc))
        THEN Returned([padded EXCEPT !.px =
                 [r \in 0..(rows - 1) |->
                    [c \in 0..(cols - 1) |->
                       IF r \in tr /\ c \in tc
                       THEN img.px[IF Rows(img) = 1 THEN 0 ELSE r - r0]
                                  [IF Cols(img) = 1 THEN 0 ELSE c - c0]
                       ELSE padded.px[r][c]]]])
        ELSE [ok |-> FALSE, exc |-> "ValueError", val |-> NoResult, same |-> FALSE]

\* pad_image that copies the image to the top-left corner of the padded array.
pad_image_corner(img, padding_type, padding_size) ==
    LET rows == Rows(img) + 2 * padding_size
        cols == Cols(img) + 2 * padding_size
        padded_image == IF IsColour(img) THEN np_zeros(<<rows, cols, 3>>)
                        ELSE np_zeros(<<rows, cols>>)
    IN  Returned([padded_image EXCEPT !.px =
            [r \in 0..(rows - 1) |->
               [c \in 0..(cols - 1) |->
                  IF r < Rows(img) /\ c < Cols(img) THEN img.px[r][c]
                  ELSE padded_image.px[r][c]]]])

pad_image(img, padding_type, padding_size) ==
    LET rows == Rows(img) + 2 * padding_size
        cols == Cols(img) + 2 * padding_size
        padded_image == IF IsColour(img) THEN np_zeros(<<rows, cols, 3>>)
                        ELSE np_zeros(<<rows, cols>>)
    IN  IF padding_type = ZERO_PADDING
        THEN PadAssign(padded_image, img, padding_size)
        ELSE Returned(padded_image)

(***************************************************************************)
(* common.py: generate_filter.  A kernel is an integer weight matrix "w"   *)
(* with one denominator: the float kernel is w / den.  The Gaussian        *)
(* weight k * exp(-r2 / (2 sigma^2)) is modelled for the sigma with        *)
(* exp(-1 / (2 sigma^2)) = 1 / base, base a positive integer, where it is  *)
(* the rational k * base^(-r2); the gain k cancels in the normalisation.   *)
(***************************************************************************)
BOX_FILTER == "box"

GAUSSIAN_FILTER == "gaussian"

RECURSIVE Pow(_, _)
Pow(b, e) == IF e <= 0 THEN 1 ELSE b * Pow(b, e - 1)

RECURSIVE SumRange(_, _, _)
SumRange(f, lo, hi) == IF lo > hi THEN 0 ELSE f[lo] + SumRange(f, lo + 1, hi)

\* np.sum of a 2-D integer matrix.
MatrixSum(w, rows, cols) ==
    SumRange([r \in 0..(rows - 1) |-> SumRange(w[r], 0, cols - 1)], 0, rows - 1)

Kernel(size, w, den) == [kind |-> "kernel", shape |-> <<size, size>>, w |-> w, den |-> den]

\* np.ones(shape) / np.sum(np.ones(shape))
BoxKernel(size) ==
    Kernel(size, [r \in 0..(size - 1) |-> [c \in 0..(size - 1) |-> 1]], size * size)

GaussianKernel(size, base) ==
    LET center_position == size \div 2
        r_squared(row, col) == (row - center_position) * (row - center_position)
                               + (col - center_position) * (col - center_position)
        top == 2 * center_position * center_position
        w == [row \in 0..(size - 1) |->
                [col \in 0..(size - 1) |-> Pow(base, top - r_squared(row, col))]]
    IN  Kernel(size, w, MatrixSum(w, size, size))

\* filter_size is an int; has_params says whether k and sigma were passed.
generate_filter_even(filter_size) == filter_size % 2 = 0

generate_filter(filter_type, filter_size, has_params, base) ==
    IF generate_filter_even(filter_size)
    THEN raise_exception("ValueError")
    ELSE IF filter_size < 0
    THEN \* np.zeros(shape=(filter_size, filter_size)): negative dimensions
         [ok |-> FALSE, exc |-> "ValueError", val |-> NoResult, same |-> FALSE]
    ELSE IF filter_type = BOX_FILTER
    THEN Returned(BoxKernel(filter_size))
    ELSE IF filter_type = GAUSSIAN_FILTER
    THEN IF has_params THEN Returned(GaussianKernel(filter_size, base))
         ELSE raise_exception("KeyError")
    ELSE Returned(Kernel(filter_size,
                         [r \in 0..(filter_size - 1) |-> [c \in 0..(filter_size - 1) |-> 0]],
                         1))

(***************************************************************************)
(* common.py: extract_sub_image.                                           *)
(***************************************************************************)
\* extract_sub_image without its check of the size.
extract_sub_image_unchecked(sub_image_size) == FALSE

extract_sub_image_even(sub_image_size) == sub_image_size % 2 = 0

extract_sub_image(img, position, sub_image_size) ==
    IF extract_sub_image_even(sub_image_size)
    THEN raise_exception("ValueError")
    ELSE LET row_start == position[1] - (sub_image_size \div 2)
             row_end   == position[1] + (sub_image_size \div 2) + 1
             col_start == position[2] - (sub_image_size \div 2)
             col_end   == position[2] + (sub_image_size \div 2) + 1
             h  == SliceLen(row_start, row_end, Rows(img))
             w  == SliceLen(col_start, col_end, Cols(img))
             r0 == SliceIndex(row_start, Rows(img))
             c0 == SliceIndex(col_start, Cols(img))
         IN  Returned([kind |-> "image",
                       shape |-> IF IsColour(img) THEN <<h, w, 3>> ELSE <<h, w>>,
                       den |-> img.den,
                       px |-> [r \in 0..(h - 1) |->
                                 [c \in 0..(w - 1) |-> img.px[r0 + r][c0 + c]]]])

(***************************************************************************)
(* common.py: convert_to_grayscale.                                        *)
(***************************************************************************)
\* 0.2989 * red + 0.5870 * green + 0.1140 * blue, in ten-thousandths.
NtscSum(pixel) == 2989 * pixel[1] + 5870 * pixel[2] + 1140 * pixel[3]

\* A colour image gives a new array; a grayscale image is returned as is.
convert_to_grayscale(img) ==
    IF Len(img.shape) = 3
    THEN Returned([kind |-> "image", shape |-> <<Rows(img), Cols(img)>>,
                   den |-> img.den * 10000,
                   px |-> [r \in 0..(Rows(img) - 1) |->
                             [c \in 0..(Cols(img) - 1) |-> NtscSum(img.px[r][c])]]])
    ELSE ReturnedInput(img)

(***************************************************************************)
(* common.py: contrast_stretching and image_normalization.                 *)
(***************************************************************************)
PixelValues(img) ==
    IF IsColour(img)
    THEN {img.px[r][c][ch] : r \in 0..(Rows(img) - 1), c \in 0..(Cols(img) - 1), ch \in 1..3}
    ELSE {img.px[r][c] : r \in 0..(Rows(img) - 1), c \in 0..(Cols(img) - 1)}

np_max(img) == CHOOSE v \in PixelValues(img) : \A u \in PixelValues(img) : u <= v

np_min(img) == CHOOSE v \in PixelValues(img) : \A u \in PixelValues(img) : v <= u

MapPixels(img, F(_)) ==
    [r \in 0..(Rows(img) - 1) |->
       [c \in 0..(Cols(img) - 1) |->
          IF IsColour(img)
          THEN <<F(img.px[r][c][1]), F(img.px[r][c][2]), F(img.px[r][c][3])>>
          ELSE F(img.px[r][c])]]

\* m = 1 / (max_value - min_value); return m * (image[:, :] - min_value).
\* The float division by zero does not raise: m is Inf and Inf * 0 is NaN,
\* which the denominator 0 encodes.
contrast_stretching(img) ==
    LET max_value == np_max(img)
        min_value == np_min(img)
        Shift(p) == p - min_value
    IN  Returned([img EXCEPT !.den = max_value - min_value,
                             !.px = MapPixels(img, Shift)])

DEFAULT_NORMALIZATION_METHOD == "unchanged"

\* The 'cutoff' assignments without the second one.
ClampAbove(p, den) == IF p > den THEN den ELSE p

\* image[image > 1] = 1; image[image < 0] = 0, for the pixel p / den.
Clamp(p, den) == IF p > den THEN den ELSE IF p < 0 THEN 0 ELSE p

\* 'unchanged', 'cutoff' and the default case return the argument array
\* itself, and 'cutoff' has assigned to it in place.
image_normalization(img, normalization_method) ==
    IF normalization_method = "unchanged" THEN ReturnedInput(img)
    ELSE IF normalization_method = "stretch" THEN contrast_stretching(img)
    ELSE IF normalization_method = "cutoff"
    THEN LET ClampPixel(p) == Clamp(p, img.den)
         IN  ReturnedInput([img EXCEPT !.px = MapPixels(img, ClampPixel)])
    ELSE ReturnedInput(img)

(***************************************************************************)
(* common.py: convolution_2d.                                              *)
(***************************************************************************)
\* The product sum with the kernel turned by 180 degrees.
ProductSumFlipped(a, h, w, kernel) ==
    LET kh == kernel.shape[1]
        kw == kernel.shape[2]
        oh == IF h = 1 THEN kh ELSE h
        ow == IF w = 1 THEN kw ELSE w
    IN  SumRange([i \in 0..(oh - 1) |->
                    SumRange([j \in 0..(ow - 1) |->
                                a[IF h = 1 THEN 0 ELSE i][IF w = 1 THEN 0 ELSE j]
                                * kernel.w[IF kh = 1 THEN 0 ELSE kh - 1 - i]
                                          [IF kw = 1 THEN 0 ELSE kw - 1 - j]],
                             0, ow - 1)],
                 0, oh - 1)

\* np.sum(a * kernel) for a 2-D plane "a" of shape <<h, w>>, with numpy's
\* broadcasting of the product.
ProductSum(a, h, w, kernel) ==
    LET kh == kernel.shape[1]
        kw == kernel.shape[2]
        oh == IF h = 1 THEN kh ELSE h
        ow == IF w = 1 THEN kw ELSE w
    IN  SumRange([i \in 0..(oh - 1) |->
                    SumRange([j \in 0..(ow - 1) |->
                                a[IF h = 1 THEN 0 ELSE i][IF w = 1 THEN 0 ELSE j]
                                * kernel.w[IF kh = 1 THEN 0 ELSE i][IF kw = 1 THEN 0 ELSE j]],
                             0, ow - 1)],
                 0, oh - 1)

ProductDefined(h, w, kernel) ==
    /\ h = kernel.shape[1] \/ h = 1 \/ kernel.shape[1] = 1
    /\ w = kernel.shape[2] \/ w = 1 \/ kernel.shape[2] = 1

Plane(sub, ch) ==
    [r \in 0..(Rows(sub) - 1) |-> [c \in 0..(Cols(sub) - 1) |-> sub.px[r][c][ch]]]

\* One output pixel as the centre weight times the centre pixel only.
ConvolvePixelCentre(sub, kernel) ==
    LET half == kernel.shape[1] \div 2
        F(p) == p * kernel.w[half][half]
    IN  MapPixels(sub, F)[Min2(half, Rows(sub) - 1)][Min2(half, Cols(sub) - 1)]

\* One output pixel: the product sum of the neighbourhood and the kernel,
\* per channel for a colour image.
ConvolvePixel(sub, kernel) ==
    IF IsColour(sub)
    THEN <<ProductSum(Plane(sub, 1), Rows(sub), Cols(sub), kernel),
           ProductSum(Plane(sub, 2), Rows(sub), Cols(sub), kernel),
           ProductSum(Plane(sub, 3), Rows(sub), Cols(sub), kernel)>>
    ELSE ProductSum(sub.px, Rows(sub), Cols(sub), kernel)

\* The loop over the output pixels: the first neighbourhood that raises ends it.
ConvolutionLoop(img, padded_image, kernel, kernel_size) ==
    LET half == kernel_size \div 2
        pos == Positions(Rows(img), Cols(img))
        sub == [p \in pos |->
                  extract_sub_image(padded_image, <<p[1] + half, p[2] + half>>, kernel_size)]
    IN  IF \E p \in pos : ~sub[p].ok
        THEN raise_exception("ValueError")
        ELSE IF \E p \in pos : ~ProductDefined(Rows(sub[p].val), Cols(sub[p].val), kernel)
        THEN [ok |-> FALSE, exc |-> "ValueError", val |-> NoResult, same |-> FALSE]
        ELSE Returned([kind |-> "image", shape |-> img.shape,
                       den |-> img.den * kernel.den,
                       px |-> [r \in 0..(Rows(img) - 1) |->
                                 [c \in 0..(Cols(img) - 1) |->
                                    ConvolvePixel(sub[<<r, c>>].val, kernel)]]])

\* convolution_2d up to its last line: the check of the kernel, the padding
\* and the loop, which give the new array convolution_image.
ConvolutionImage(img, kernel, padding_type) ==
    LET kernel_size == kernel.shape[1]
    IN  IF kernel.shape[1] # kernel.shape[2]
        THEN raise_exception("ValueError")
        ELSE LET padded == pad_image(img, padding_type, kernel_size \div 2)
             IN  IF ~padded.ok THEN padded
                 ELSE ConvolutionLoop(img, padded.val, kernel, kernel_size)

\* The last line of convolution_2d: the normalization of convolution_image,
\* which is not the array the caller passed.
ConvolutionReturn(conv, normalization_method) ==
    IF ~conv.ok THEN conv
    ELSE LET normalized == image_normalization(conv.val, normalization_method)
         IN  IF normalized.ok THEN Returned(normalized.val) ELSE normalized

convolution_2d(img, kernel, padding_type, normalization_method) ==
    ConvolutionReturn(ConvolutionImage(img, kernel, padding_type), normalization_method)

(***************************************************************************)
(* segmentation.py: thresholding.                                          *)
(***************************************************************************)
\* The comparison with >= in the place of >.
GreaterOrEqual(p, den, threshold_value) ==
    IF den = 0 THEN p > 0 ELSE p >= threshold_value * den

\* p / den > threshold_value, as a float comparison: a NaN compares False.
GreaterThan(p, den, threshold_value) ==
    IF den = 0 THEN p > 0 ELSE p > threshold_value * den

\* (image > threshold_value).astype(float)
thresholding(img, threshold_value) ==
    LET Bin(p) == IF GreaterThan(p, img.den, threshold_value) THEN 1 ELSE 0
    IN  Returned([img EXCEPT !.den = 1, !.px = MapPixels(img, Bin)])

(***************************************************************************)
(* segmentation.py: kirsch_edge_detection.  The value returned is the      *)
(* dictionary "images"; the record carries beside it the function's locals *)
(* post_convolution_images and max_value_image as they are at the return.  *)
(***************************************************************************)
\* np.array of three rows, as a 0-based matrix.
Array3(rows) == [r \in 0..2 |-> [c \in 0..2 |-> rows[r + 1][c + 1]]]

KirschDirections ==
    <<"NORTH", "NORTH_WEST", "WEST", "SOUTH_WEST",
      "SOUTH", "SOUTH_EAST", "EAST", "NORTH_EAST">>

kirsch_edge_detection_kernels ==
    [NORTH      |-> Kernel(3, Array3(<<<<-3, -3, 5>>, <<-3, 0, 5>>, <<-3, -3, 5>>>>), 1),
     NORTH_WEST |-> Kernel(3, Array3(<<<<-3, 5, 5>>, <<-3, 0, 5>>, <<-3, -3, -3>>>>), 1),
     WEST       |-> Kernel(3, Array3(<<<<5, 5, 5>>, <<-3, 0, -3>>, <<-3, -3, -3>>>>), 1),
     SOUTH_WEST |-> Kernel(3, Array3(<<<<5, 5, -3>>, <<5, 0, -3>>, <<-3, -3, -3>>>>), 1),
     SOUTH      |-> Kernel(3, Array3(<<<<5, -3, -3>>, <<5, 0, -3>>, <<5, -3, -3>>>>), 1),
     SOUTH_EAST |-> Kernel(3, Array3(<<<<-3, -3, -3>>, <<5, 0, -3>>, <<5, 5, -3>>>>), 1),
     EAST       |-> Kernel(3, Array3(<<<<-3, -3, -3>>, <<-3, 0, -3>>, <<5, 5, 5>>>>), 1),
     NORTH_EAST |-> Kernel(3, Array3(<<<<-3, -3, -3>>, <<-3, 0, 5>>, <<-3, 5, 5>>>>), 1)]

\* An elementwise operation on two arrays of one shape.
Zip(a, b, F(_, _)) ==
    [r \in 0..(Rows(a) - 1) |->
       [c \in 0..(Cols(a) - 1) |->
          IF IsColour(a)
          THEN <<F(a.px[r][c][1], b.px[r][c][1]),
                 F(a.px[r][c][2], b.px[r][c][2]),
                 F(a.px[r][c][3], b.px[r][c][3])>>
          ELSE F(a.px[r][c], b.px[r][c])]]

\* The convolution of the image with each direction's kernel, by direction.
KirschResponses(img, padding_type) ==
    [d \in DOMAIN kirsch_edge_detection_kernels |->
       convolution_2d(img, kirsch_edge_detection_kernels[d], padding_type,
                      DEFAULT_NORMALIZATION_METHOD)]

\* boolean_image = (response > max_value_image) * response
\* max_value_image = np.maximum(boolean_image, max_value_image)
KirschRaise(response, max_value) ==
    LET boolean_value == IF response > max_value THEN response ELSE 0
    IN  Max2(boolean_value, max_value)

RECURSIVE KirschRunningMax(_, _, _)
KirschRunningMax(post, max_value_image, i) ==
    IF i > Len(KirschDirections) THEN max_value_image
    ELSE KirschRunningMax(post,
                          [max_value_image EXCEPT
                             !.px = Zip(post[KirschDirections[i]], max_value_image, KirschRaise)],
                          i + 1)

\* The maximum values image of the responses "post", from np.zeros.
KirschMaxValueImage(img, post) == KirschRunningMax(post, np_zeros(img.shape), 1)

\* (response <= max_value_image) * response
KirschKeepStrict(response, max_value) == IF response < max_value THEN response ELSE 0

KirschKeep(response, max_value) == IF response <= max_value THEN response ELSE 0

kirsch_edge_detection(img, padding_type) ==
    LET conv == KirschResponses(img, padding_type)
    IN  IF \E d \in DOMAIN conv : ~conv[d].ok
        THEN conv[CHOOSE d \in DOMAIN conv : ~conv[d].ok]
        ELSE LET post == [d \in DOMAIN conv |-> conv[d].val]
                 max_value_image == KirschMaxValueImage(img, post)
             IN  Returned([kind |-> "dict",
                           post_convolution_images |-> post,
                           max_value_image |-> max_value_image,
                           images |-> [d \in DOMAIN post |->
                                         [post[d] EXCEPT
                                            !.px = Zip(post[d], max_value_image, KirschKeep)]]])

(***************************************************************************)
(* segmentation.py: line_detection.  The returned dictionary is "images";  *)
(* the record also carries the local filtered_image of every direction.    *)
(***************************************************************************)
line_detection_kernels ==
    [HORIZONTAL |-> Kernel(3, Array3(<<<<-1, -1, -1>>, <<2, 2, 2>>, <<-1, -1, -1>>>>), 1),
     PLUS_45    |-> Kernel(3, Array3(<<<<2, -1, -1>>, <<-1, 2, -1>>, <<-1, -1, 2>>>>), 1),
     VERTICAL   |-> Kernel(3, Array3(<<<<-1, 2, -1>>, <<-1, 2, -1>>, <<-1, 2, -1>>>>), 1),
     MINUS_45   |-> Kernel(3, Array3(<<<<-1, -1, 2>>, <<-1, 2, -1>>, <<2, -1, -1>>>>), 1)]

\* The filtered image passed on as it is, without np.abs.
np_abs_omitted(img) == img

\* np.abs(filtered_image)
np_abs(img) == [img EXCEPT !.px = MapPixels(img, Abs)]

\* The convolution of the image with each direction's kernel, by direction.
LineResponses(img, padding_type) ==
    [d \in DOMAIN line_detection_kernels |->
       convolution_2d(img, line_detection_kernels[d], padding_type,
                      DEFAULT_NORMALIZATION_METHOD)]

\* The dictionary built from the convolutions "conv" of the directions: the
\* first convolution that raises ends the call.
LineResults(conv, threshold_value) ==
    IF \E d \in DOMAIN conv : ~conv[d].ok
    THEN conv[CHOOSE d \in DOMAIN conv : ~conv[d].ok]
    ELSE Returned([kind |-> "dict",
                   filtered_images |-> [d \in DOMAIN conv |-> conv[d].val],
                   images |-> [d \in DOMAIN conv |->
                                 thresholding(np_abs(conv[d].val), threshold_value).val]])

line_detection(img, padding_type, threshold_value) ==
    LineResults(LineResponses(img, padding_type), threshold_value)

(***************************************************************************)
(* segmentation.py: global_thresholding.  A float scalar is a record       *)
(* [num, den] of value num / den; den = 0 with num = 0 is NaN.             *)
(***************************************************************************)
NaN == [num |-> 0, den |-> 0]

IsNaN(x) == x.den = 0 /\ x.num = 0

Float(n, d) == [num |-> n, den |-> d]

FloatAdd(x, y) == Float(x.num * y.den + y.num * x.den, x.den * y.den)

FloatHalf(x) == Float(x.num, 2 * x.den)

\* Round n / d (d > 0) to the nearest integer, a tie to the even one.
RoundHalfEven(n, d) ==
    LET q == n \div d
        r == n % d
    IN  IF 2 * r < d THEN q
        ELSE IF 2 * r > d THEN q + 1
        ELSE IF q % 2 = 0 THEN q ELSE q + 1

\* np.round(x, 3): a multiple of 1/1000; NaN stays NaN.
np_round3(x) ==
    IF x.den = 0 THEN x ELSE Float(RoundHalfEven(1000 * x.num, x.den), 1000)

\* np.abs(x - y) < delta; False when either side is NaN.
AbsDiffLess(x, y, delta) ==
    IF x.den = 0 \/ y.den = 0 THEN FALSE
    ELSE Abs(x.num * y.den - y.num * x.den) * delta.den < delta.num * x.den * y.den

\* pixel > threshold for a pixel numerator over den; False for a NaN threshold.
AbovePixel(p, den, threshold) ==
    IF threshold.den = 0 THEN FALSE ELSE p * threshold.den > threshold.num * den

\* boolean_image = grayscale_image > global_threshold
BooleanImage(gray, threshold) ==
    [r \in 0..(Rows(gray) - 1) |->
       [c \in 0..(Cols(gray) - 1) |-> AbovePixel(gray.px[r][c], gray.den, threshold)]]

\* Lines 211-226: the threshold the iteration computes from global_threshold.
NewGlobalThreshold(gray, threshold) ==
    LET boolean_image == BooleanImage(gray, threshold)
        pos == Positions(Rows(gray), Cols(gray))
        above_threshold_pixel_count ==
            Cardinality({p \in pos : boolean_image[p[1]][p[2]]})
        below_threshold_pixel_count ==
            Rows(gray) * Cols(gray) - above_threshold_pixel_count
        above_threshold_image ==
            [r \in 0..(Rows(gray) - 1) |->
               [c \in 0..(Cols(gray) - 1) |->
                  IF boolean_image[r][c] THEN gray.px[r][c] ELSE 0]]
        below_threshold_image ==
            [r \in 0..(Rows(gray) - 1) |->
               [c \in 0..(Cols(gray) - 1) |->
                  gray.px[r][c] - above_threshold_image[r][c]]]
        \* a float division: a zero count gives 0/0 = NaN, with a warning only
        above_threshold_mean ==
            Float(MatrixSum(above_threshold_image, Rows(gray), Cols(gray)),
                  gray.den * above_threshold_pixel_count)
        below_threshold_mean ==
            Float(MatrixSum(below_threshold_image, Rows(gray), Cols(gray)),
                  gray.den * below_threshold_pixel_count)
    IN  np_round3(FloatHalf(FloatAdd(above_threshold_mean, below_threshold_mean)))

\* thresholding(image=grayscale_image, threshold_value=threshold)
ThresholdingAt(gray, threshold) ==
    LET Bin(p) == IF AbovePixel(p, gray.den, threshold) THEN 1 ELSE 0
    IN  [gray EXCEPT !.den = 1, !.px = MapPixels(gray, Bin)]

(***************************************************************************)
(* The operations as actions: a call from the idle state records its       *)
(* arguments and its outcome, and Reset returns to the idle state.         *)
(***************************************************************************)
Idle == outcome = "idle" /\ pc = "idle"

NoCall == [op |-> "none"]

\* The call c on the array "image" ends with res.  When the array returned
\* is the argument array, "image" holds what the call left in it.
Finish(c, res) ==
    \E r \in {res} :
      /\ call' = c
      /\ outcome' = IF r.ok THEN "returned" ELSE "raised"
      /\ result' = IF r.ok THEN r.val ELSE [kind |-> "exception", exc |-> r.exc]
      /\ result_is_input' = r.same
      /\ image' = IF r.same THEN r.val ELSE image
      /\ UNCHANGED <<loop_vars, epic_vars>>

Reset ==
    /\ outcome \in {"returned", "raised"}
    /\ call' = NoCall
    /\ outcome' = "idle"
    /\ result' = NoResult
    /\ pc' = "idle"
    /\ global_threshold' = NaN
    /\ new_global_threshold' = NaN
    /\ thresholds' = 0
    /\ result_is_input' = FALSE
    /\ UNCHANGED <<image, epic_vars>>

\* The padding policies a caller passes: the one the code knows and one it
\* does not.
PaddingTypes == {ZERO_PADDING, "mirror_padding"}

PadImage ==
    /\ Idle
    /\ \E m \in 0..MaxPad, padding_type \in PaddingTypes :
         Finish([op |-> "pad_image", padding_type |-> padding_type, padding_size |-> m],
                pad_image(image, padding_type, m))

OddSizes == {2 * h + 1 : h \in 0..MaxHalf}

EvenSizes == {2 * h : h \in 0..MaxHalf}

\* The kernels a caller passes to convolution_2d: the generated filters of
\* every odd size, and all-ones square arrays of every even side.
OddKernels ==
    {BoxKernel(k) : k \in OddSizes}
    \cup {GaussianKernel(k, b) : k \in OddSizes, b \in 2..MaxBase}

EvenKernels ==
    {Kernel(k, [r \in 0..(k - 1) |-> [c \in 0..(k - 1) |-> 1]], 1) : k \in EvenSizes}

NormalizationMethods == {"unchanged", "stretch", "cutoff", "other"}

\* convolution_2d(image, kernel, ZERO_PADDING, method) for every kernel and
\* method, with convolution_image, which does not depend on the method,
\* computed once.
Convolution2d ==
    /\ Idle
    /\ \E kernel \in OddKernels \cup EvenKernels :
         \E conv \in {ConvolutionImage(image, kernel, ZERO_PADDING)} :
           \E method \in {"unchanged", "cutoff"} :
             Finish([op |-> "convolution_2d", kernel |-> kernel,
                     padding_type |-> ZERO_PADDING, normalization_method |-> method],
                    ConvolutionReturn(conv, method))

\* The calls of generate_filter: k and sigma matter to the Gaussian filter only.
FilterArguments ==
    [filter_type : {BOX_FILTER, "other"}, has_params : {FALSE}, base : {2}]
    \cup [filter_type : {GAUSSIAN_FILTER}, has_params : {FALSE}, base : {2}]
    \cup [filter_type : {GAUSSIAN_FILTER}, has_params : {TRUE}, base : 2..MaxBase]

GenerateFilter ==
    /\ Idle
    /\ \E a \in FilterArguments, filter_size \in (-2)..(2 * MaxHalf + 1) :
         Finish([op |-> "generate_filter", filter_type |-> a.filter_type,
                 filter_size |-> filter_size, has_params |-> a.has_params, base |-> a.base],
                generate_filter(a.filter_type, filter_size, a.has_params, a.base))

ExtractSubImage ==
    /\ Idle
    /\ \E position \in Positions(Rows(image), Cols(image)),
          sub_image_size \in 0..(2 * MaxHalf + 1) :
         Finish([op |-> "extract_sub_image", position |-> position,
                 sub_image_size |-> sub_image_size],
                extract_sub_image(image, position, sub_image_size))

ConvertToGrayscale ==
    /\ Idle
    /\ Finish([op |-> "convert_to_grayscale"], convert_to_grayscale(image))

\* image - offset: the array itself for the offset 0, a temporary otherwise.
Minus(img, offset) ==
    LET Sub(p) == p - offset * img.den
    IN  [img EXCEPT !.px = MapPixels(img, Sub)]

\* image_normalization(image, method) and image_normalization(image - 1,
\* method), whose argument has values below 0 as a filter response has.  The
\* call records the array as it was passed, since 'cutoff' assigns to it; an
\* array returned as is is "image" only when "image" itself was passed.
ImageNormalization ==
    /\ Idle
    /\ \E method \in NormalizationMethods, offset \in {0, 1} :
         LET argument == Minus(image, offset)
             res == image_normalization(argument, method)
         IN  Finish([op |-> "image_normalization", normalization_method |-> method,
                     offset |-> offset, image |-> argument],
                    IF offset = 0 THEN res ELSE [res EXCEPT !.same = FALSE])

\* line_detection(image, ZERO_PADDING, threshold_value) for every threshold,
\* with the convolutions, which do not depend on it, computed once.
LineDetection ==
    /\ Idle
    /\ \E conv \in {LineResponses(image, ZERO_PADDING)} :
         \E threshold_value \in 0..(MaxPixel + 1) :
           Finish([op |-> "line_detection", padding_type |-> ZERO_PADDING,
                   threshold_value |-> threshold_value],
                  LineResults(conv, threshold_value))

KirschEdgeDetection ==
    /\ Idle
    /\ Finish([op |-> "kirsch_edge_detection", padding_type |-> ZERO_PADDING],
              kirsch_edge_detection(image, ZERO_PADDING))

Thresholding ==
    /\ Idle
    /\ \E t \in (-1)..(MaxPixel + 1) :
         Finish([op |-> "thresholding", threshold_value |-> t],
                thresholding(image, t))

InitIdle ==
    /\ call = NoCall
    /\ outcome = "idle"
    /\ result = NoResult
    /\ result_is_input = FALSE
    /\ pc = "idle"
    /\ global_threshold = NaN
    /\ new_global_threshold = NaN
    /\ thresholds = 0

\* A Python value: its type and, for a number, its value.
PyValue(type, v) == [type |-> type, v |-> v]

NoValue == PyValue("none", 0)

\* No EPIC object yet; the configured default is 1.
InitNoEPIC ==
    /\ number_of_images = NoValue
    /\ epic = [state |-> "none", default |-> PyValue("int", 1), supplied |-> NoValue]

Init == image \in Images /\ InitIdle /\ InitNoEPIC

Next ==
    \/ PadImage
    \/ Convolution2d
    \/ GenerateFilter
    \/ ExtractSubImage
    \/ ImageNormalization
    \/ ConvertToGrayscale
    \/ Thresholding
    \/ KirschEdgeDetection
    \/ Reset

Spec == Init /\ [][Next]_vars

\* The calls of convolution_2d, by a caller and by kirsch_edge_detection.
NextConvolution ==
    \/ Convolution2d
    \/ KirschEdgeDetection
    \/ Reset

SpecConvolution == Init /\ [][NextConvolution]_vars

\* The calls of line_detection.
NextLines ==
    \/ LineDetection
    \/ Reset

SpecLines == Init /\ [][NextLines]_vars

(***************************************************************************)
(* global_thresholding as a process: the call, the two halves of one       *)
(* iteration of its "while True" loop, and the return.  "thresholds" is    *)
(* the length of the list of that name, counted up to MaxIterations.       *)
(***************************************************************************)
RECURSIVE SortedPixels(_, _)
SortedPixels(n, lo) ==
    IF n = 0 THEN {<<>>}
    ELSE UNION {{<<v>> \o t : t \in SortedPixels(n - 1, v)} : v \in lo..MaxLevel}

\* The grayscale images of every shape up to MaxThresholdRows x
\* MaxThresholdCols with pixels in 0..MaxLevel that do not decrease in
\* row-major order: the
\* loop reads the image through counts and sums over all its pixels only.
ThresholdImages ==
    UNION {{[kind |-> "image", shape |-> <<h, w>>, den |-> 1,
             px |-> [r \in 0..(h - 1) |-> [c \in 0..(w - 1) |-> t[r * w + c + 1]]]]
            : t \in SortedPixels(h * w, 0)}
           : <<h, w>> \in (1..MaxThresholdRows) \X (1..MaxThresholdCols)}

\* Seeds from -1/2 to MaxLevel + 1/2 in steps of 1/2, and each plus 1/2000.
InitialThresholds ==
    {Float(1000 * k + e, 2000) : k \in (-1)..(2 * MaxLevel + 1), e \in {0, 1}}

DeltaValues == {Float(1, 1000), Float(10, 1000), Float(600, 1000)}

\* Lines 201-205.
GlobalThresholdingCall ==
    /\ Idle
    /\ \E initial_threshold \in InitialThresholds, delta_t \in DeltaValues :
         /\ call' = [op |-> "global_thresholding",
                     initial_threshold |-> initial_threshold, delta_t |-> delta_t,
                     rerun |-> FALSE, first_iterations |-> 0]
         /\ global_threshold' = np_round3(initial_threshold)
    /\ thresholds' = 0
    /\ pc' = "loop"
    /\ outcome' = "running"
    /\ UNCHANGED <<image, result, result_is_input, new_global_threshold, epic_vars>>

\* Lines 211-227.
GlobalThresholdingCompute ==
    /\ pc = "loop"
    /\ new_global_threshold' = NewGlobalThreshold(image, global_threshold)
    /\ thresholds' = Min2(thresholds + 1, MaxIterations)
    /\ pc' = "check"
    /\ UNCHANGED <<image, call, outcome, result, result_is_input, global_threshold,
                   epic_vars>>

\* The threshold that replaces the current one whether the loop stops or not.
ThresholdAfterCheckNew(old_threshold, new_threshold, delta_t) ==
    np_round3(new_threshold)

\* Lines 230-236: global_threshold after the stop test, which leaves it as
\* it is when the loop stops and replaces it by the new one otherwise.
ThresholdAfterCheck(old_threshold, new_threshold, delta_t) ==
    IF AbsDiffLess(new_threshold, old_threshold, delta_t)
    THEN old_threshold
    ELSE np_round3(new_threshold)

\* Lines 230-236.
GlobalThresholdingCheck ==
    /\ pc = "check"
    /\ pc' = IF AbsDiffLess(new_global_threshold, global_threshold, call.delta_t)
             THEN "break" ELSE "loop"
    /\ global_threshold' = ThresholdAfterCheck(global_threshold, new_global_threshold,
                                               call.delta_t)
    /\ UNCHANGED <<image, call, outcome, result, result_is_input,
                   new_global_threshold, thresholds, epic_vars>>

\* The threshold of the returned image taken from the last computed one.
ReturnThresholdNew(old_threshold, new_threshold) == np_round3(new_threshold)

\* Line 238: the threshold_value argument of the final thresholding.
ReturnThreshold(old_threshold, new_threshold) == np_round3(old_threshold)

\* Line 238.
GlobalThresholdingReturn ==
    /\ pc = "break"
    /\ result' = ThresholdingAt(image, ReturnThreshold(global_threshold,
                                                       new_global_threshold))
    /\ result_is_input' = FALSE
    /\ outcome' = "returned"
    /\ pc' = "done"
    /\ UNCHANGED <<image, call, global_threshold, new_global_threshold, thresholds,
                   epic_vars>>

\* A second call on the same image with the same delta_t, seeded with the
\* threshold the first call stopped at (lines 201-205 again).
GlobalThresholdingRerun ==
    /\ pc = "done"
    /\ ~call.rerun
    /\ call' = [call EXCEPT !.initial_threshold = global_threshold,
                            !.rerun = TRUE,
                            !.first_iterations = thresholds]
    /\ global_threshold' = np_round3(global_threshold)
    /\ thresholds' = 0
    /\ pc' = "loop"
    /\ outcome' = "running"
    /\ result' = NoResult
    /\ result_is_input' = FALSE
    /\ UNCHANGED <<image, new_global_threshold, epic_vars>>

InitThreshold == image \in ThresholdImages /\ InitIdle /\ InitNoEPIC

NextThreshold ==
    \/ GlobalThresholdingCall
    \/ GlobalThresholdingCompute
    \/ GlobalThresholdingCheck
    \/ GlobalThresholdingReturn
    \/ GlobalThresholdingRerun
    \/ Reset

\* The code is one thread that runs on: whichever step is enabled is taken.
SpecThreshold == InitThreshold /\ [][NextThreshold]_vars /\ WF_vars(NextThreshold)

(***************************************************************************)
(* API/EPIC.py: the number_of_images property of an EPIC object.           *)
(***************************************************************************)
\* isinstance(value, int): a bool is an int in Python.
isinstance_int(value) == value.type \in {"int", "bool"}

\* The check without its second test.
check_number_of_images_value_type(value, default) ==
    IF ~isinstance_int(value) THEN default ELSE value

\* __check_number_of_images_value: the field after the check, from the
\* field before it and Settings.EPIC_NUMBER_OF_PHOTOS_TO_COLLECT.
check_number_of_images_value(value, default) ==
    IF ~isinstance_int(value) THEN default
    ELSE IF value.v < 1 THEN default
    ELSE value

\* The values a caller supplies: ints, bools, floats, a string and None.
SuppliedValues ==
    {PyValue("int", n) : n \in (-1)..MaxNumber}
    \cup {PyValue("bool", n) : n \in 0..1}
    \cup {PyValue("float", n) : n \in (-1)..MaxNumber}
    \cup {PyValue("str", 0), PyValue("NoneType", 0)}

\* EPIC(image_directory, number_of_images): an omitted argument is the default.
EPICInit ==
    /\ epic.state = "none"
    /\ \E value \in SuppliedValues \cup {epic.default} :
         /\ number_of_images' = check_number_of_images_value(value, epic.default)
         /\ epic' = [epic EXCEPT !.state = "constructed", !.supplied = value]
    /\ UNCHANGED <<image, call, outcome, result, result_is_input, loop_vars>>

\* obj.number_of_images = new_number_of_images
EPICSetNumberOfImages ==
    /\ epic.state # "none"
    /\ \E new_number_of_images \in SuppliedValues :
         /\ number_of_images' =
                check_number_of_images_value(new_number_of_images, epic.default)
         /\ epic' = [epic EXCEPT !.state = "set", !.supplied = new_number_of_images]
    /\ UNCHANGED <<image, call, outcome, result, result_is_input, loop_vars>>

\* The configured default is a positive int.
InitEPIC ==
    /\ image = np_zeros(<<1, 1>>)
    /\ InitIdle
    /\ number_of_images = NoValue
    /\ \E n \in 1..MaxNumber :
         epic = [state |-> "none", default |-> PyValue("int", n), supplied |-> NoValue]

NextEPIC ==
    \/ EPICInit
    \/ EPICSetNumberOfImages

SpecEPIC == InitEPIC /\ [][NextEPIC]_vars

(***************************************************************************)
(* Properties.                                                             *)
(***************************************************************************)
Called(op) == outcome # "idle" /\ call.op = op

AllPositions(img) == Positions(Rows(img), Cols(img))

IsConstant(img) == ~IsColour(img) /\ Cardinality(PixelValues(img)) = 1

\* The zero-policy postcondition of pad_image for the margin m.
PadPostcondition(img, m, out) ==
    /\ out.kind = "image"
    /\ out.shape = IF IsColour(img) THEN <<Rows(img) + 2 * m, Cols(img) + 2 * m, 3>>
                   ELSE <<Rows(img) + 2 * m, Cols(img) + 2 * m>>
    /\ \A p \in AllPositions(out) :
         IF m <= p[1] /\ p[1] < m + Rows(img) /\ m <= p[2] /\ p[2] < m + Cols(img)
         THEN out.px[p[1]][p[2]] = img.px[p[1] - m][p[2] - m]
         ELSE out.px[p[1]][p[2]] = ZeroPixel(IsColour(img))

\* C1: for every image and every margin m >= 0, pad_image under the zero
\* policy returns an array of shape (H+2m, W+2m[,3]) whose central H x W
\* region equals the image and whose border of width m is zero.
C1_PadZeroPolicy ==
    (Called("pad_image") /\ call.padding_type = ZERO_PADDING)
        => (outcome = "returned" /\ PadPostcondition(image, call.padding_size, result))

\* The same postcondition for the margins m >= 1.
PadPositiveMargin ==
    (Called("pad_image") /\ call.padding_type = ZERO_PADDING /\ call.padding_size >= 1)
        => (outcome = "returned" /\ PadPostcondition(image, call.padding_size, result))

OddKernelCall ==
    /\ Called("convolution_2d")
    /\ call.kernel.shape[1] = call.kernel.shape[2]
    /\ call.kernel.shape[1] % 2 = 1

\* C2: for every odd kernel side K, K = 1 included, and every image,
\* convolution_2d returns without error an image of the input's shape.
C2_ConvolutionKeepsShape ==
    OddKernelCall => (outcome = "returned" /\ result.shape = image.shape)

\* The sum of the kernel weights whose neighbour of output pixel (r, c) lies
\* inside an h x w image.
InImageWeight(kernel, r, c, h, w) ==
    LET half == kernel.shape[1] \div 2
        k == kernel.shape[1]
    IN  SumRange([i \in 0..(k - 1) |->
                    SumRange([j \in 0..(k - 1) |->
                                IF 0 <= r + i - half /\ r + i - half < h
                                   /\ 0 <= c + j - half /\ c + j - half < w
                                THEN kernel.w[i][j] ELSE 0],
                             0, k - 1)],
                 0, k - 1)

Interior(img, half, r, c) ==
    /\ half <= r /\ r < Rows(img) - half
    /\ half <= c /\ c < Cols(img) - half

ConstantNormalizedCall ==
    /\ OddKernelCall
    /\ call.kernel.den = MatrixSum(call.kernel.w, call.kernel.shape[1], call.kernel.shape[2])
    /\ call.padding_type = ZERO_PADDING
    /\ call.normalization_method = "unchanged"
    /\ IsConstant(image)

\* C3 as stated: a constant image of value c convolved with a normalized
\* kernel under zero padding and 'unchanged' normalization returns an image
\* whose every pixel, the border pixels included, equals c.  (Kernels of
\* side 1 are the case of C2; the statement is taken for the sides K >= 3.)
C3_ConstantImageEverywhere ==
    (ConstantNormalizedCall /\ call.kernel.shape[1] >= 3)
        => /\ outcome = "returned"
           /\ \A p \in AllPositions(image) :
                result.px[p[1]][p[2]] = image.px[0][0] * result.den

\* C3 amended: for K >= 3 the result equals c at every pixel at least K // 2
\* away from the four edges, and at every pixel c times the sum of the
\* kernel weights whose neighbours lie inside the image.
C3_ConstantImageInterior ==
    (ConstantNormalizedCall /\ call.kernel.shape[1] >= 3)
        => /\ outcome = "returned"
           /\ result.shape = image.shape
           /\ result.den = call.kernel.den
           /\ \A p \in AllPositions(image) :
                /\ result.px[p[1]][p[2]]
                     = image.px[0][0] * InImageWeight(call.kernel, p[1], p[2],
                                                      Rows(image), Cols(image))
                /\ Interior(image, call.kernel.shape[1] \div 2, p[1], p[2])
                     => result.px[p[1]][p[2]] = image.px[0][0] * result.den

C3_Witness ==
    /\ ConstantNormalizedCall
    /\ call.kernel.shape[1] = 3
    /\ image.shape = <<3, 3>>
    /\ image.px[0][0] > 0
    /\ outcome = "returned"
    /\ result.px[1][1] = image.px[0][0] * result.den
    /\ result.px[0][0] < image.px[0][0] * result.den

\* The image [[0,0,0],[0,1,0],[0,0,0]] convolved with the 3 x 3 box kernel.
ImpulseCall ==
    /\ Called("convolution_2d")
    /\ call.kernel = BoxKernel(3)
    /\ call.padding_type = ZERO_PADDING
    /\ call.normalization_method = "unchanged"
    /\ image = Paint(3, 3, 0, (<<1, 1>> :> 1))

Corners == {<<0, 0>>, <<0, 2>>, <<2, 0>>, <<2, 2>>}

\* C4 as stated: the centre output pixel is 1/9 and the four corner outputs
\* are 0.
C4_ImpulseCornersZero ==
    ImpulseCall => /\ outcome = "returned"
                   /\ 9 * result.px[1][1] = result.den
                   /\ \A p \in Corners : result.px[p[1]][p[2]] = 0

\* C4 amended: the centre output pixel is 1/9 and so is each of the four
\* corner outputs (every 3 x 3 neighbourhood contains the centre pixel).
C4_ImpulseCornersNinth ==
    ImpulseCall => /\ outcome = "returned"
                   /\ result.den > 0
                   /\ 9 * result.px[1][1] = result.den
                   /\ \A p \in Corners : 9 * result.px[p[1]][p[2]] = result.den

C4_Witness == ImpulseCall /\ outcome = "returned" /\ result.shape = <<3, 3>>

ChannelAt(img, r, c, ch) == IF IsColour(img) THEN img.px[r][c][ch] ELSE img.px[r][c]

ChannelIds(img) == IF IsColour(img) THEN 1..3 ELSE {1}

\* C5: thresholding(image, t) returns an image of the same shape with values
\* in {0, 1}, where the output is 1 exactly at the pixels p > t; a pixel
\* equal to t maps to 0.
C5_ThresholdingStrict ==
    Called("thresholding")
        => /\ outcome = "returned"
           /\ result.shape = image.shape
           /\ result.den = 1
           /\ \A p \in AllPositions(image) : \A ch \in ChannelIds(image) :
                /\ ChannelAt(result, p[1], p[2], ch) \in {0, 1}
                /\ ChannelAt(result, p[1], p[2], ch) = 1
                     <=> ChannelAt(image, p[1], p[2], ch) > call.threshold_value

C5_Witness ==
    /\ Called("thresholding")
    /\ outcome = "returned"
    /\ \E p \in AllPositions(image) :
         /\ ~IsColour(image)
         /\ image.px[p[1]][p[2]] = call.threshold_value
         /\ result.px[p[1]][p[2]] = 0
    /\ \E p \in AllPositions(image) :
         /\ ~IsColour(image)
         /\ image.px[p[1]][p[2]] > call.threshold_value
         /\ result.px[p[1]][p[2]] = 1

RaisedValueError == outcome = "raised" /\ result.kind = "exception" /\ result.exc = "ValueError"

C8_StretchConstantRaises ==
    (Called("image_normalization") /\ call.normalization_method = "stretch"
       /\ Cardinality(PixelValues(image)) = 1)
        => (outcome = "raised" /\ result.kind = "exception")

\* What the code does on a constant image: every pixel of the result is 0/0.
StretchConstantIsNaN ==
    (Called("image_normalization") /\ call.normalization_method = "stretch"
       /\ Cardinality(PixelValues(image)) = 1)
        => /\ outcome = "returned"
           /\ result.den = 0
           /\ \A p \in AllPositions(image) : result.px[p[1]][p[2]] = 0

DirectionSet == DOMAIN kirsch_edge_detection_kernels

SetMax(S) == CHOOSE v \in S : \A u \in S : u <= v

\* C9: a direction's output keeps its raw response only at the pixels where
\* the response equals the per-pixel maximum over the 8 directions (ties all
\* keep their value); wherever the direction is strictly dominated, its
\* output is 0.
C9_KirschDominatedIsZero ==
    Called("kirsch_edge_detection")
        => /\ outcome = "returned"
           /\ \A d \in DirectionSet : \A p \in AllPositions(image) :
                \A ch \in ChannelIds(image) :
                   LET raw(e) == ChannelAt(result.post_convolution_images[e], p[1], p[2], ch)
                       top    == SetMax({raw(e) : e \in DirectionSet})
                   IN  ChannelAt(result.images[d], p[1], p[2], ch)
                         = IF raw(d) = top THEN raw(d) ELSE 0

\* What the code does: every directional output is the raw response.
KirschKeepsEveryResponse ==
    Called("kirsch_edge_detection")
        => /\ outcome = "returned"
           /\ \A d \in DirectionSet : result.images[d].px = result.post_convolution_images[d].px

\* C10: at every pixel the maximum over the 8 directional outputs equals
\* the running maximum computed for that pixel, which starts at 0 and is
\* raised by each direction's response in turn.
C10_KirschMaxOfOutputs ==
    Called("kirsch_edge_detection")
        => /\ outcome = "returned"
           /\ \A p \in AllPositions(image) : \A ch \in ChannelIds(image) :
                SetMax({ChannelAt(result.images[d], p[1], p[2], ch) : d \in DirectionSet})
                  = ChannelAt(result.max_value_image, p[1], p[2], ch)

C10_Witness ==
    /\ Called("kirsch_edge_detection")
    /\ outcome = "returned"
    /\ ~IsColour(image)
    /\ \E p \in AllPositions(image) :
         /\ result.max_value_image.px[p[1]][p[2]] > 0
         /\ \E d \in DirectionSet : result.images[d].px[p[1]][p[2]] < 0
         /\ \E d \in DirectionSet :
              result.images[d].px[p[1]][p[2]]
                = result.max_value_image.px[p[1]][p[2]]

\* C7: the loop of global_thresholding is bounded for every image, initial
\* threshold and positive delta_t: it reaches the stop condition or raises
\* a convergence failure; it never loops forever.
C7_LoopEnds == (pc = "loop") ~> (pc = "break" \/ outcome = "raised")

\* What the code does once a group is empty: the threshold is NaN for good.
NaNThresholdStays ==
    [][(pc \in {"loop", "check"} /\ IsNaN(global_threshold))
          => (pc' \in {"loop", "check"} /\ IsNaN(global_threshold'))]_vars

\* A run whose groups are both non-empty at every iteration does stop.
StopReached == pc = "done" /\ outcome = "returned" /\ ~IsNaN(global_threshold)


GlobalThresholdingRerunning == call.op = "global_thresholding" /\ call.rerun

\* C11: a second run of global_thresholding on the same image with the same
\* delta_t, seeded with the threshold the first run stopped at, stops in its
\* first iteration: it computes one new threshold, passes the stop test with
\* it, and returns.
C11_RerunOneIteration ==
    GlobalThresholdingRerunning =>
        /\ pc = "loop" => thresholds = 0
        /\ pc = "check" =>
             /\ thresholds = 1
             /\ AbsDiffLess(new_global_threshold, global_threshold, call.delta_t)
        /\ pc \in {"break", "done"} => thresholds = 1

\* A rerun that has returned after a first run of two iterations or more.
C11_Witness ==
    /\ GlobalThresholdingRerunning
    /\ pc = "done"
    /\ thresholds = 1
    /\ call.first_iterations >= 2

\* C17: when global_thresholding has stopped, the new threshold was
\* computed from global_threshold and is closer than delta_t to it, and the
\* returned image is the thresholding of the image at global_threshold, not
\* at the new threshold.
C17_ReturnsPreviousThreshold ==
    (call.op = "global_thresholding" /\ pc = "done") =>
        /\ new_global_threshold = NewGlobalThreshold(image, global_threshold)
        /\ AbsDiffLess(new_global_threshold, global_threshold, call.delta_t)
        /\ result = ThresholdingAt(image, global_threshold)

\* A returned image that the new threshold would have binarized otherwise.
C17_Witness ==
    /\ call.op = "global_thresholding"
    /\ pc = "done"
    /\ result = ThresholdingAt(image, global_threshold)
    /\ result # ThresholdingAt(image, new_global_threshold)

\* C13: pad_image with a padding policy it does not recognize raises nothing
\* and returns what the zero policy returns: the expanded shape, a zero
\* border and a central region equal to the image.
C13_UnrecognizedPadsAsZero ==
    (Called("pad_image") /\ call.padding_type # ZERO_PADDING)
        => (outcome = "returned" /\ PadPostcondition(image, call.padding_size, result))

\* What the code returns for a policy it does not recognize: the array
\* np.zeros allocated, of the expanded shape, into which nothing was copied.
UnrecognizedPadIsBlank ==
    (Called("pad_image") /\ call.padding_type # ZERO_PADDING)
        => /\ outcome = "returned"
           /\ result = np_zeros(IF IsColour(image)
                                THEN <<Rows(image) + 2 * call.padding_size,
                                       Cols(image) + 2 * call.padding_size, 3>>
                                ELSE <<Rows(image) + 2 * call.padding_size,
                                       Cols(image) + 2 * call.padding_size>>)

\* An int that is 1 or more.
ValidNumberOfImages(value) == isinstance_int(value) /\ value.v >= 1

\* C18: once an EPIC object is constructed, and after every setter call,
\* number_of_images is the value supplied last when that value is an int of
\* 1 or more, and the configured default otherwise; it is never a value that
\* is not an int or is below 1.
C18_NumberOfImagesValid ==
    epic.state # "none" =>
        /\ number_of_images = IF ValidNumberOfImages(epic.supplied)
                              THEN epic.supplied ELSE epic.default
        /\ ValidNumberOfImages(number_of_images)

\* A setter call that supplied an int below 1 has left the default in the field.
C18_Witness ==
    /\ epic.state = "set"
    /\ epic.supplied.type = "int"
    /\ epic.supplied.v < 1
    /\ number_of_images = epic.default

\* The operations of the model that return an image.
ImageOperations ==
    {"pad_image", "convolution_2d", "image_normalization", "thresholding",
     "convert_to_grayscale"}

\* C12: every call of an operation that returns an image (pad_image,
\* convolution_2d, image_normalization under each method, contrast_stretching
\* through 'stretch', thresholding, convert_to_grayscale) leaves the array it
\* was given as it was, and the array it returns is not that array.
C12_InputsUnchangedOutputsFresh ==
    [][(Idle /\ outcome' = "returned" /\ call'.op \in ImageOperations)
          => (image' = image /\ ~result_is_input')]_vars

\* The calls that return the argument array itself: image_normalization
\* under every method but 'stretch', and convert_to_grayscale of a grayscale
\* image.
ReturnsArgument(c, img) ==
    \/ c.op = "image_normalization" /\ c.normalization_method # "stretch" /\ c.offset = 0
    \/ c.op = "convert_to_grayscale" /\ ~IsColour(img)

\* What the code does: those calls return their argument, and of them only
\* 'cutoff' changes it; every other call returns a new array.
ReturnedAsIsOrFresh ==
    [][(Idle /\ outcome' = "returned" /\ call'.op \in ImageOperations)
          => /\ result_is_input' <=> ReturnsArgument(call', image)
             /\ image' # image
                  => (call'.op = "image_normalization"
                      /\ call'.normalization_method = "cutoff")]_vars

\* A 'cutoff' call that has changed the array it was given.
CutoffChangedInput ==
    /\ Called("image_normalization")
    /\ call.normalization_method = "cutoff"
    /\ result_is_input
    /\ image # call.image

\* C14: image_normalization under 'cutoff' returns the input with every
\* value above 1 replaced by 1, every value below 0 replaced by 0 and every
\* other value kept; under 'stretch', for an image that is not constant, it
\* returns (p - min) / (max - min) at every pixel, so that the least output
\* value is 0 and the greatest is 1.
C14_NormalizationPostconditions ==
    Called("image_normalization") =>
        LET in == call.image
            lo == np_min(in)
            hi == np_max(in)
            outs == {<<ChannelAt(in, p[1], p[2], ch), ChannelAt(result, p[1], p[2], ch)>> :
                       p \in AllPositions(in), ch \in ChannelIds(in)}
        IN  /\ call.normalization_method = "cutoff" =>
                 /\ outcome = "returned"
                 /\ result.shape = in.shape
                 /\ result.den > 0
                 /\ \A o \in outs :
                      /\ o[1] > in.den => o[2] = result.den
                      /\ o[1] < 0 => o[2] = 0
                      /\ (0 <= o[1] /\ o[1] <= in.den) => o[2] * in.den = o[1] * result.den
            /\ (call.normalization_method = "stretch" /\ lo # hi) =>
                 /\ outcome = "returned"
                 /\ result.shape = in.shape
                 /\ result.den > 0
                 /\ \A o \in outs : o[2] * (hi - lo) = (o[1] - lo) * result.den
                 /\ \A o \in outs : 0 <= o[2] /\ o[2] <= result.den
                 /\ \E o \in outs : o[2] = 0
                 /\ \E o \in outs : o[2] = result.den

\* A 'cutoff' call on an array with a value below 0 and a value inside (0, 1].
C14_Witness ==
    /\ Called("image_normalization")
    /\ call.normalization_method = "cutoff"
    /\ outcome = "returned"
    /\ np_min(call.image) < 0
    /\ np_max(call.image) = call.image.den
    /\ np_min(result) = 0
    /\ np_max(result) = result.den

\* A 'cutoff' call on an array with a value above 1.
C14_WitnessAbove ==
    /\ Called("image_normalization")
    /\ call.normalization_method = "cutoff"
    /\ np_max(call.image) > call.image.den
    /\ np_max(result) = result.den

\* A 'stretch' call on an image that is not constant.
C14_WitnessStretch ==
    /\ Called("image_normalization")
    /\ call.normalization_method = "stretch"
    /\ outcome = "returned"
    /\ np_min(call.image) # np_max(call.image)
    /\ np_min(result) = 0

\* The source pixel at (r, c), and 0 outside the source: the padded image
\* under the zero policy, read in source coordinates.
SourceOrZero(img, r, c, ch) ==
    IF 0 <= r /\ r < Rows(img) /\ 0 <= c /\ c < Cols(img)
    THEN ChannelAt(img, r, c, ch)
    ELSE 0

\* The sum over the kernel cells (i, j) of kernel[i][j] * padded[r+i][c+j],
\* with the kernel as it is given.
KernelSum(img, kernel, r, c, ch) ==
    LET K == kernel.shape[1]
        half == K \div 2
    IN  SumRange([i \in 0..(K - 1) |->
                    SumRange([j \in 0..(K - 1) |->
                                kernel.w[i][j] * SourceOrZero(img, r + i - half, c + j - half, ch)],
                             0, K - 1)],
                 0, K - 1)

\* The raw convolution "raw" of img with the kernel is the kernel sum at
\* every pixel and channel.
IsKernelSum(img, kernel, raw) ==
    /\ raw.shape = img.shape
    /\ raw.den = img.den * kernel.den
    /\ \A p \in AllPositions(img) : \A ch \in ChannelIds(img) :
         ChannelAt(raw, p[1], p[2], ch) = KernelSum(img, kernel, p[1], p[2], ch)

\* The neighbourhood of side K that convolution_2d requests for the output
\* pixel (r, c) lies inside the padded image, and is returned whole.
NeighbourhoodInside(padded, K, r, c) ==
    LET half == K \div 2
        sub == extract_sub_image(padded, <<r + half, c + half>>, K)
    IN  /\ 0 <= (r + half) - half
        /\ (r + half) + half + 1 <= Rows(padded)
        /\ 0 <= (c + half) - half
        /\ (c + half) + half + 1 <= Cols(padded)
        /\ sub.ok
        /\ Rows(sub.val) = K
        /\ Cols(sub.val) = K

\* A convolution_2d call with an odd kernel of side 3 or more whose result
\* is not normalized.
RawConvolutionCall ==
    /\ OddKernelCall
    /\ call.kernel.shape[1] >= 3
    /\ call.normalization_method = "unchanged"

\* C16: for every odd kernel side K >= 3 and every output pixel of
\* convolution_2d, the neighbourhood requested from extract_sub_image lies
\* inside the padded image, and the raw result is the sum over the kernel
\* cells of kernel[i][j] * padded[r+i][c+j], the kernel not flipped, for each
\* channel by itself, where the cells outside the source image count 0.  The
\* raw results are those of the 'unchanged' calls and the responses of
\* kirsch_edge_detection, whose kernels are not symmetric.
C16_ConvolutionIsKernelSum ==
    /\ RawConvolutionCall =>
         /\ outcome = "returned"
         /\ IsKernelSum(image, call.kernel, result)
         /\ LET padded == pad_image(image, ZERO_PADDING, call.kernel.shape[1] \div 2).val
            IN  \A p \in AllPositions(image) :
                  NeighbourhoodInside(padded, call.kernel.shape[1], p[1], p[2])
    /\ Called("kirsch_edge_detection") =>
         /\ outcome = "returned"
         /\ \A d \in DirectionSet :
              IsKernelSum(image, kirsch_edge_detection_kernels[d],
                          result.post_convolution_images[d])
         /\ LET padded == pad_image(image, ZERO_PADDING, 1).val
            IN  \A p \in AllPositions(image) : NeighbourhoodInside(padded, 3, p[1], p[2])

\* The kernel SOUTH is the kernel NORTH turned by 180 degrees: a pixel of a
\* colour image where the two responses differ.
C16_Witness ==
    /\ Called("kirsch_edge_detection")
    /\ outcome = "returned"
    /\ IsColour(image)
    /\ Rows(image) >= 2
    /\ \E p \in AllPositions(image) : \E ch \in 1..3 :
         result.post_convolution_images["NORTH"].px[p[1]][p[2]][ch]
           # result.post_convolution_images["SOUTH"].px[p[1]][p[2]][ch]

LineDirectionSet == {"HORIZONTAL", "PLUS_45", "VERTICAL", "MINUS_45"}

\* C15: line_detection returns four results, labelled HORIZONTAL, PLUS_45,
\* VERTICAL and MINUS_45, each a binary image of the shape of the input, and
\* a pixel of a result is 1 exactly where the absolute value of the response
\* of that orientation's kernel is greater than threshold_value.
C15_LineDetectionFourBinary ==
    Called("line_detection") =>
        /\ outcome = "returned"
        /\ DOMAIN result.images = LineDirectionSet
        /\ \A d \in LineDirectionSet :
             /\ result.images[d].shape = image.shape
             /\ result.images[d].den = 1
             /\ \A p \in AllPositions(image) : \A ch \in ChannelIds(image) :
                  /\ ChannelAt(result.images[d], p[1], p[2], ch) \in {0, 1}
                  /\ ChannelAt(result.images[d], p[1], p[2], ch) = 1
                       <=> Abs(KernelSum(image, line_detection_kernels[d], p[1], p[2], ch))
                             > call.threshold_value * image.den

\* A call with a response below -threshold_value, which gives 1, and a
\* response equal to threshold_value, which gives 0.
C15_Witness ==
    /\ Called("line_detection")
    /\ outcome = "returned"
    /\ ~IsColour(image)
    /\ call.threshold_value >= 1
    /\ \E d \in LineDirectionSet : \E p \in AllPositions(image) :
         /\ result.filtered_images[d].px[p[1]][p[2]] < -call.threshold_value
         /\ result.images[d].px[p[1]][p[2]] = 1
    /\ \E d \in LineDirectionSet : \E p \in AllPositions(image) :
         /\ Abs(result.filtered_images[d].px[p[1]][p[2]]) = call.threshold_value
         /\ result.images[d].px[p[1]][p[2]] = 0

=========================================================================
